---- MODULE Spec2Model ----
(***************************************************************************)
(* State-machine model of the escalation engine of alertmanager-bot        *)
(* (pkg/telegram): the dispatch loop of Bot.Run, the webhook routine       *)
(* Bot.sendWebhook, the HandleAlert handlers and the per-case AutoForward  *)
(* goroutine.                                                              *)
(*                                                                         *)
(* Bot.Run and Bot.sendWebhook are taken from bot.go, NewAlert from the    *)
(* revision of alert.go that bot.go calls, and Acknowledge, Forward,       *)
(* AutoForward, Resolved and IncreaseLevel from the last revision in       *)
(* callback.go.  Resolved there takes the rendered notification text; the  *)
(* webhook routine passes the text it rendered at bot.go:404.              *)
(*                                                                         *)
(* Three kinds of threads run concurrently and share the HandleAlert       *)
(* objects without synchronisation: the dispatch loop, the webhook         *)
(* routine, and one AutoForward goroutine per created case.  A handler of  *)
(* the dispatch loop or of the webhook routine is one step.  An iteration  *)
(* of the AutoForward goroutine that escalates is two steps, so that a     *)
(* handler can run between its test of the flag and its notice, and        *)
(* between its read and its assignment of Level: the first step is the     *)
(* test of the flag and of the elapsed time, the assignment to LastUpdate  *)
(* and the read of Level in IncreaseLevel (a handler that ran between      *)
(* these would do the same before them or after them); the second is the   *)
(* assignment to Level, the lookup and the notice.                         *)
(*                                                                         *)
(* Spec is that program.  SpecEditFirst is the program with Acknowledge,   *)
(* Forward and Resolved as alert.go has them, where the edit of the        *)
(* keyboard comes before the assignment and Resolved sends nothing.        *)
(* SpecLookup applies the two member lookups, GetRandomMemberByLevel of    *)
(* the first member store and GetRandomMemberByChatandLevel, to every      *)
(* store over a small set of members.                                      *)
(*                                                                         *)
(* The callback data is a text of tokens, and Decode does to it what the   *)
(* two calls of dec.Decode of the loop do.  SpecPayloads is the program    *)
(* before any timeout, with callbacks of any data.  SpecShutdown adds the  *)
(* cancellation of the context and the return of the loop.  SpecTimers is  *)
(* the program while no button is pressed and nothing is resolved, and     *)
(* SpecFair the program with one chat and one firing notification; both    *)
(* state the fairness of the clock, the loop and the AutoForward           *)
(* goroutines.                                                             *)
(*                                                                         *)
(* SpecWithMessage is the program with NewAlert of the last revision in    *)
(* callback.go, which sends the alert message itself and starts the        *)
(* goroutine before its last error return.  SpecAddMember is the dispatch  *)
(* loop taking /addmember messages of the admin, on the member store and   *)
(* the node store, both empty at the start.                                *)
(*                                                                         *)
(* Time: a case carries Since, the whole minutes elapsed since its         *)
(* LastUpdate, saturated at AutoForwardTimeout (the code only compares     *)
(* time.Since(a.LastUpdate) with that constant).  a.LastUpdate =           *)
(* time.Now() is Since = 0.                                                *)
(***************************************************************************)
EXTENDS Integers, Sequences, FiniteSets, TLC

\* ---- bounds of the model ----
MaxCases == 2
MaxQueue == 1
\* minutes that pass in one step of the clock
TickMinutes == 5

\* ---- program constants ----
AutoForwardTimeout == 5

levelOne == "1"
levelTwo == "2"
levelThree == "3"
HandleLevel == {levelOne, levelTwo, levelThree}

strAcknowledgeData == "Acknowledge"
strForwardData == "Forward"

\* ---- the environment's finite universe ----
AlertIDs == {"X", "Y"}
Users == {"bob"}

Member(u, l, c) == [Username |-> u, Level |-> l, Chat |-> c]

\* the member store: chat 1 has a member of every level, chat 2 has nobody
\* of level 3
Directory ==
  { Member("alice", levelOne, 1), Member("carol", levelTwo, 1),
    Member("sre", levelThree, 1),
    Member("zoe", levelOne, 2), Member("yan", levelTwo, 2) }

InitialChats == { <<1>>, <<1, 2>> }

\* the node store, key by key: the node named like the alert group X is
\* owned by olga, who is no member of a chat; no node is named like Y
Nodes == [k \in {""} |-> [ID |-> "", Name |-> "X", Owner |-> "olga"]]

VARIABLES
  heap,          \* the HandleAlert objects, in order of creation
  tpc,           \* position of each case's AutoForward goroutine
  tlv,           \* the level that goroutine is about to assign in IncreaseLevel
  msgs,          \* messages with an inline keyboard, index = message ID
  HandleAlerts,  \* the map of Bot.Run: AlertID -> cases
  WebhookAlerts, \* the map of Bot.sendWebhook (also named HandleAlerts there)
  alertchan,     \* channel sendWebhook -> Run
  callbacks,     \* channel telebot -> Run
  chats,         \* chat store: subscribed chats, in List() order
  members,       \* member store
  crashed,       \* a goroutine panicked: the process is gone
  answer,        \* the last call of a member lookup on its own, with its result
  ctx,           \* "live"; "done" once ctx is cancelled; "returned" once the
                 \* dispatch loop has taken ctx.Done() and returned
  nodes          \* node store: key -> node

vars == <<heap, tpc, tlv, msgs, HandleAlerts, WebhookAlerts, alertchan,
          callbacks, chats, members, answer, ctx, nodes, crashed>>

Cases == 1..Len(heap)

\* ---- callback payload (callback.go:16-30, encoding/json) ----
NewCallbackData(button, alert) == [Button |-> button, AlertID |-> alert]

\* a variant of json.Marshal that names the members after the fields of the
\* struct, as it would without the json tags; C28 rejects it
MarshalUntagged(cd) == <<"{", "Button", cd.Button, "AlertID", cd.AlertID, "}">>

\* json.Marshal of a CallbackData: the text {"button":...,"alert":...}, token
\* by token
Marshal(cd) == <<"{", "button", cd.Button, "alert", cd.AlertID, "}">>

ZeroCallbackData == [Button |-> "", AlertID |-> ""]

\* a token of a payload is a brace, a JSON string, or "~" for bytes that
\* begin no JSON value
IsString(tok) == tok \notin {"{", "}", "~"}

\* the index of the brace that closes the object the text begins with; 0
\* when the text does not begin with an object of string members
ObjectEnd(data) ==
  IF data = <<>> \/ data[1] # "{" THEN 0
  ELSE LET closing == { j \in 2..Len(data) : data[j] = "}" }
       IN  IF closing = {} THEN 0
           ELSE LET j == CHOOSE x \in closing : \A y \in closing : x <= y
                IN  IF (j - 2) % 2 = 0 /\ \A k \in 2..(j - 1) : IsString(data[k])
                    THEN j ELSE 0

\* the members of an object, in their order, stored into cd: a field keeps
\* its value unless a member names it
RECURSIVE Unmarshal(_, _)
Unmarshal(cd, pairs) ==
  IF pairs = <<>> THEN cd
  ELSE LET cd1 == IF pairs[1] = "button" THEN [cd EXCEPT !.Button = pairs[2]]
                  ELSE IF pairs[1] = "alert" THEN [cd EXCEPT !.AlertID = pairs[2]]
                  ELSE cd
       IN  Unmarshal(cd1, SubSeq(pairs, 3, Len(pairs)))

\* one call of dec.Decode(&cd) on the decoder d: a syntax error stays with
\* the decoder; at the end of the text io.EOF; a JSON string is read and
\* does not fit the struct; an object is read and stored into cd; the text
\* after the value stays in the decoder
DecodeValue(d) ==
  IF d.err = "syntax" THEN d
  ELSE IF d.rest = <<>> THEN [d EXCEPT !.err = "EOF"]
  ELSE IF IsString(Head(d.rest)) THEN [d EXCEPT !.rest = Tail(@), !.err = "type"]
  ELSE IF ObjectEnd(d.rest) > 0
  THEN [cd |-> Unmarshal(d.cd, SubSeq(d.rest, 2, ObjectEnd(d.rest) - 1)),
        rest |-> SubSeq(d.rest, ObjectEnd(d.rest) + 1, Len(d.rest)),
        err |-> "nil"]
  ELSE [d EXCEPT !.err = "syntax"]

\* var cd CallbackData and the two calls of dec.Decode(&cd) on
\* callback.Data; the errors are logged at most, and cd is what the loop
\* goes on with
Decode(data) ==
  DecodeValue(DecodeValue([cd |-> ZeroCallbackData, rest |-> data, err |-> "nil"])).cd

\* ---- chat transport ----
Notice(kind, chat, from, to) ==
  [op |-> "send", chat |-> chat, kind |-> kind, from |-> from, to |-> to,
   mid |-> 0, kb |-> {}]

EditRec(chat, mid, kb) ==
  [op |-> "edit", chat |-> chat, kind |-> "markup", from |-> "", to |-> "",
   mid |-> mid, kb |-> kb]

\* SendMessage without keyboard: the call is issued; whether it returns an
\* error is the caller's case distinction
SendMessage(s, n) == [s EXCEPT !.out = Append(@, n)]

\* SendMessage with the two-button keyboard: the call is issued and fails, or
\* the chat gets a new message
SendAlertMessage(s, chat, kb) ==
  LET s1 == [s EXCEPT !.out = Append(@, [op |-> "send", chat |-> chat,
                                         kind |-> "alert", from |-> "", to |-> "",
                                         mid |-> 0, kb |-> kb])]
  IN  {s1, [s1 EXCEPT !.msgs = Append(@, [chat |-> chat, kb |-> kb])]}

\* the message exists in that chat
CanEdit(s, chat, mid) == mid \in 1..Len(s.msgs) /\ s.msgs[mid].chat = chat

\* EditMessageReplyMakeup: the call is issued and fails, or takes effect on a
\* message that exists
EditMessageReplyMakeup(s, chat, mid, kb) ==
  LET s1 == [s EXCEPT !.out = Append(@, EditRec(chat, mid, kb))]
  IN  {s1} \cup (IF CanEdit(s, chat, mid)
                 THEN {[s1 EXCEPT !.msgs[mid].kb = kb]}
                 ELSE {})

\* ---- member store ----
GetMembersByChat(dir, chat) == {m \in dir : m.Chat = chat}

\* outcomes of GetRandomMemberByChatandLevel: a store error, a panic of
\* rand.Intn(0) when no member has the level, or any member of the level
GetRandomMemberByChatandLevel(dir, chat, level) ==
  LET groupByLevel == {m \in GetMembersByChat(dir, chat) : m.Level = level}
  IN  {[kind |-> "err", Username |-> ""]}
      \cup (IF groupByLevel = {}
            THEN {[kind |-> "panic", Username |-> ""]}
            ELSE {[kind |-> "ok", Username |-> m.Username] : m \in groupByLevel})

\* ---- the state the handlers act on, as one record; out collects the
\* transport calls a handler issues ----
World ==
  [heap |-> heap, tpc |-> tpc, tlv |-> tlv, msgs |-> msgs, out |-> <<>>,
   crashed |-> crashed, alertchan |-> alertchan, reg |-> WebhookAlerts]

Panic(s) == [s EXCEPT !.crashed = TRUE]

\* ---- HandleAlert handlers ----
\* a variant of IncreaseLevel that starts over after level 3; C10 rejects it
IncreaseLevelWraps(l) ==
  IF l = levelOne THEN levelTwo
  ELSE IF l = levelTwo THEN levelThree
  ELSE levelOne

\* the level a.Level holds after IncreaseLevel (unchanged at level 3)
IncreaseLevel(l) ==
  IF l = levelOne THEN levelTwo
  ELSE IF l = levelTwo THEN levelThree
  ELSE l

\* a variant of Acknowledge that leaves the flag alone; C12 rejects it
AcknowledgeKeepsFlag(s, c, sender) ==
  LET a  == s.heap[c]
      s2 == SendMessage(s, Notice("acknowledge", a.Chat, sender, ""))
  IN  {s2} \cup EditMessageReplyMakeup(s2, a.Chat, a.MessageID, {})

\* Acknowledge: clear the flag, send the notice, clear the keyboard; each
\* transport call may fail and end the handler
Acknowledge(s, c, sender) ==
  LET s1 == [s EXCEPT !.heap[c].AutoForwardFlag = FALSE]
      a  == s1.heap[c]
      s2 == SendMessage(s1, Notice("acknowledge", a.Chat, sender, ""))
  IN  {s2} \cup EditMessageReplyMakeup(s2, a.Chat, a.MessageID, {})

\* a variant of Forward whose keyboard keeps the Forward button while the
\* new level is below level 3; C8 rejects it
ForwardKeepsRow(s, c, sender, data, dir) ==
  LET s1 == [s EXCEPT !.heap[c].Level = IncreaseLevel(@)]
      a  == s1.heap[c]
      kb == IF a.Level = levelThree
            THEN {data}
            ELSE {data, Marshal(NewCallbackData(strForwardData, a.ID))}
      Announce(r) ==
        LET s2 == SendMessage(s1, Notice("forward", a.Chat, sender, r.Username))
        IN  {s2} \cup EditMessageReplyMakeup(s2, a.Chat, a.MessageID, kb)
  IN  UNION { IF r.kind = "err" THEN {s1}
              ELSE IF r.kind = "panic" THEN {Panic(s1)}
              ELSE Announce(r)
              : r \in GetRandomMemberByChatandLevel(dir, a.Chat, a.Level) }

\* Forward: raise the level, look a member of the new level up, send the
\* notice, replace the keyboard by the single Acknowledge button
Forward(s, c, sender, data, dir) ==
  LET s1 == [s EXCEPT !.heap[c].Level = IncreaseLevel(@)]
      a  == s1.heap[c]
      Announce(r) ==
        LET s2 == SendMessage(s1, Notice("forward", a.Chat, sender, r.Username))
        IN  {s2} \cup EditMessageReplyMakeup(s2, a.Chat, a.MessageID, {data})
  IN  UNION { IF r.kind = "err" THEN {s1}
              ELSE IF r.kind = "panic" THEN {Panic(s1)}
              ELSE Announce(r)
              : r \in GetRandomMemberByChatandLevel(dir, a.Chat, a.Level) }

\* Resolved: clear the flag, send the resolved notification, clear the keyboard
Resolved(s, c) ==
  LET s1 == [s EXCEPT !.heap[c].AutoForwardFlag = FALSE]
      a  == s1.heap[c]
      s2 == SendMessage(s1, Notice("resolved", a.Chat, "", ""))
  IN  {s2} \cup EditMessageReplyMakeup(s2, a.Chat, a.MessageID, {})

\* a variant of NewAlert that starts no AutoForward goroutine; C20 rejects it
NewAlertIdle(s, id, chat, dir) ==
  LET a == [ID |-> id, MessageID |-> 0, Chat |-> chat, Level |-> levelOne,
            Since |-> 0, AutoForwardFlag |-> TRUE]
      Created(r) ==
        LET s1 == [s EXCEPT !.heap = Append(@, a),
                            !.tpc = Append(@, "done"),
                            !.tlv = Append(@, "")]
        IN  {SendMessage(s1, Notice("assign", chat, "", r.Username))}
  IN  UNION { IF r.kind = "err" THEN {[s |-> s, created |-> FALSE]}
              ELSE IF r.kind = "panic" THEN {[s |-> Panic(s), created |-> FALSE]}
              ELSE {[s |-> s2, created |-> TRUE] : s2 \in Created(r)}
              : r \in GetRandomMemberByChatandLevel(dir, chat, levelOne) }

\* NewAlert: the results are the new state and whether a case was created
NewAlert(s, id, chat, dir) ==
  LET a == [ID |-> id, MessageID |-> 0, Chat |-> chat, Level |-> levelOne,
            Since |-> 0, AutoForwardFlag |-> TRUE]
      Created(r) ==
        LET s1 == [s EXCEPT !.heap = Append(@, a),
                            !.tpc = Append(@, "flag"),
                            !.tlv = Append(@, "")]
        IN  {SendMessage(s1, Notice("assign", chat, "", r.Username))}
  IN  UNION { IF r.kind = "err" THEN {[s |-> s, created |-> FALSE]}
              ELSE IF r.kind = "panic" THEN {[s |-> Panic(s), created |-> FALSE]}
              ELSE {[s |-> s2, created |-> TRUE] : s2 \in Created(r)}
              : r \in GetRandomMemberByChatandLevel(dir, chat, levelOne) }

\* ---- Bot.sendWebhook ----
\* the firing branch for the chats cs, in order; a failed NewAlert breaks
\* out of the loop over the chats
RECURSIVE FiringChats(_, _, _, _)
FiringChats(s, id, cs, dir) ==
  IF cs = <<>> THEN {s}
  ELSE
    LET chat == Head(cs)
        kb == { Marshal(NewCallbackData(strAcknowledgeData, id)),
                Marshal(NewCallbackData(strForwardData, id)) }
        Enqueue(s2) ==
          [s2 EXCEPT !.alertchan = Append(@, Len(s2.heap)),
                     !.reg[id] = Append(@, Len(s2.heap))]
    IN  UNION { UNION { IF r.created
                        THEN FiringChats(Enqueue(r.s), id, Tail(cs), dir)
                        ELSE {r.s}
                        : r \in NewAlert(s1, id, chat, dir) }
                : s1 \in SendAlertMessage(s, chat, kb) }

\* h.Resolved for every case of the list, errors dropped
RECURSIVE ResolveAll(_, _)
ResolveAll(s, hs) ==
  IF hs = <<>> THEN {s}
  ELSE UNION { ResolveAll(s2, Tail(hs)) : s2 \in Resolved(s, Head(hs)) }

\* the resolved branch, once per chat of cs
RECURSIVE ResolvedChats(_, _, _)
ResolvedChats(s, id, cs) ==
  IF cs = <<>> THEN {s}
  ELSE UNION { ResolvedChats(s2, id, Tail(cs)) : s2 \in ResolveAll(s, s.reg[id]) }

Commit(s) ==
  /\ heap' = s.heap
  /\ tpc' = s.tpc
  /\ tlv' = s.tlv
  /\ msgs' = s.msgs
  /\ crashed' = s.crashed
  /\ alertchan' = s.alertchan
  /\ WebhookAlerts' = s.reg

WebhookFiring(id) ==
  /\ ~crashed
  /\ Len(heap) + Len(chats) <= MaxCases
  /\ Len(msgs) + Len(chats) <= MaxCases
  /\ \E s \in FiringChats(World, id, chats, members) : Commit(s)
  /\ UNCHANGED <<HandleAlerts, callbacks, chats, members, answer, ctx, nodes>>

WebhookResolved(id) ==
  /\ ~crashed
  /\ \E s \in ResolvedChats(World, id, chats) : Commit(s)
  /\ UNCHANGED <<HandleAlerts, callbacks, chats, members, answer, ctx, nodes>>

\* ---- Bot.Run: the dispatch loop ----
\* h.MessageID = callback.Message.ID and h.Acknowledge for every case of hs;
\* an error is logged and the loop goes on
RECURSIVE AcknowledgeAll(_, _, _)
AcknowledgeAll(s, hs, cb) ==
  IF hs = <<>> THEN {s}
  ELSE LET s1 == [s EXCEPT !.heap[Head(hs)].MessageID = cb.MessageID]
       IN  UNION { AcknowledgeAll(s2, Tail(hs), cb)
                   : s2 \in Acknowledge(s1, Head(hs), cb.Sender) }

\* h.MessageID = callback.Message.ID and h.Forward, with the Acknowledge
\* payload of the case, for every case of hs
RECURSIVE ForwardAll(_, _, _, _)
ForwardAll(s, hs, cb, dir) ==
  IF hs = <<>> \/ s.crashed THEN {s}
  ELSE LET h == Head(hs)
           s1 == [s EXCEPT !.heap[h].MessageID = cb.MessageID]
           data == Marshal(NewCallbackData(strAcknowledgeData, s1.heap[h].ID))
       IN  UNION { ForwardAll(s2, Tail(hs), cb, dir)
                   : s2 \in Forward(s1, h, cb.Sender, data, dir) }

\* a variant of the loop whose map is one list of cases, as in the line
\* HandleAlerts = append(HandleAlerts, a) that the intake has given up: a
\* callback runs on every case of the map; C37 rejects it
HandleCallbackOneList(s, callback, reg, dir) ==
  LET cd == Decode(callback.Data)
      hs == reg["X"] \o reg["Y"]
  IN  IF cd.Button = strAcknowledgeData
      THEN AcknowledgeAll(s, hs, callback)
      ELSE IF cd.Button = strForwardData
      THEN ForwardAll(s, hs, callback, dir)
      ELSE {s}

\* a variant of the loop that finds the cases of a callback among all
\* cases created, not in its own map; C23 rejects it
HandleCallbackByHeap(s, callback, reg, dir) ==
  LET cd == Decode(callback.Data)
      hs == SelectSeq([c \in 1..Len(s.heap) |-> c],
                      LAMBDA c : s.heap[c].ID = cd.AlertID)
  IN  IF cd.Button = strAcknowledgeData
      THEN AcknowledgeAll(s, hs, callback)
      ELSE IF cd.Button = strForwardData
      THEN ForwardAll(s, hs, callback, dir)
      ELSE {s}

\* what the loop does with a callback
HandleCallback(s, callback, reg, dir) ==
  LET cd == Decode(callback.Data)
  IN  IF cd.Button = strAcknowledgeData
      THEN AcknowledgeAll(s, reg[cd.AlertID], callback)
      ELSE IF cd.Button = strForwardData
      THEN ForwardAll(s, reg[cd.AlertID], callback, dir)
      ELSE {s}

\* case callback := <-callbacks
RunCallback ==
  /\ ~crashed /\ ctx # "returned" /\ callbacks # <<>>
  /\ \E s \in HandleCallback(World, Head(callbacks), HandleAlerts, members) : Commit(s)
  /\ callbacks' = Tail(callbacks)
  /\ UNCHANGED <<HandleAlerts, chats, members, answer, ctx, nodes>>

\* case a := <-alertchan
RunAlert ==
  /\ ~crashed /\ ctx # "returned" /\ alertchan # <<>>
  /\ LET a == Head(alertchan)
     IN  HandleAlerts' =
           IF HandleAlerts[heap[a].ID] = <<>>
           THEN [HandleAlerts EXCEPT ![heap[a].ID] = Append(@, a)]
           ELSE HandleAlerts
  /\ alertchan' = Tail(alertchan)
  /\ UNCHANGED <<heap, tpc, tlv, msgs, WebhookAlerts, callbacks, chats,
                 members, answer, ctx, nodes, crashed>>

\* ---- HandleAlert.AutoForward: one goroutine per case ----
LoopFrame ==
  UNCHANGED <<HandleAlerts, callbacks, chats, members, answer, ctx, nodes>>

\* the lookup for a.Level and the notice, whose error is dropped; a lookup
\* error returns from the goroutine; then time.Sleep and back to the loop head
AutoForwardLookup(s, c, dir) ==
  LET a == s.heap[c]
  IN  { IF r.kind = "err" THEN [s EXCEPT !.tpc[c] = "done", !.tlv[c] = ""]
        ELSE IF r.kind = "panic" THEN Panic(s)
        ELSE [SendMessage(s, Notice("autoforward", a.Chat, "", r.Username))
                EXCEPT !.tpc[c] = "flag", !.tlv[c] = ""]
        : r \in GetRandomMemberByChatandLevel(dir, a.Chat, a.Level) }

\* a variant of the loop head that does not test the flag; C29 rejects it
AutoForwardTestKeepsOn(s, c, dir) ==
  LET a == s.heap[c]
      s1 == [s EXCEPT !.heap[c].Since = 0]
  IN  IF IncreaseLevel(a.Level) # a.Level
      THEN {[s1 EXCEPT !.tpc[c] = "incw", !.tlv[c] = IncreaseLevel(a.Level)]}
      ELSE AutoForwardLookup(s1, c, dir)

\* the loop head up to the test of a.Level in IncreaseLevel: the flag is
\* false and the goroutine returns; or the timeout has passed, a.LastUpdate =
\* time.Now(), and either a.Level is below level 3 and is about to be
\* assigned, or it is level 3 and the lookup and the notice follow
AutoForwardTest(s, c, dir) ==
  LET a == s.heap[c]
      s1 == [s EXCEPT !.heap[c].Since = 0]
  IN  IF ~a.AutoForwardFlag THEN {[s EXCEPT !.tpc[c] = "done"]}
      ELSE IF IncreaseLevel(a.Level) # a.Level
      THEN {[s1 EXCEPT !.tpc[c] = "incw", !.tlv[c] = IncreaseLevel(a.Level)]}
      ELSE AutoForwardLookup(s1, c, dir)

AutoForwardLoop(c) ==
  /\ ~crashed /\ tpc[c] = "flag"
  /\ ~heap[c].AutoForwardFlag \/ heap[c].Since >= AutoForwardTimeout
  /\ \E s \in AutoForwardTest(World, c, members) : Commit(s)
  /\ LoopFrame

\* the assignment to a.Level in IncreaseLevel, then the lookup and the notice
AutoForwardAssign(s, c, dir) ==
  AutoForwardLookup([s EXCEPT !.heap[c].Level = s.tlv[c]], c, dir)

AutoForwardEscalate(c) ==
  /\ ~crashed /\ tpc[c] = "incw"
  /\ \E s \in AutoForwardAssign(World, c, members) : Commit(s)
  /\ LoopFrame

AutoForward(c) ==
  \/ AutoForwardLoop(c)
  \/ AutoForwardEscalate(c)

\* ---- the environment ----
\* TickMinutes pass for every case whose goroutine still runs
Tick ==
  /\ ~crashed
  /\ \E c \in Cases : tpc[c] # "done" /\ heap[c].Since < AutoForwardTimeout
  /\ heap' = [c \in Cases |->
                IF tpc[c] # "done" /\ heap[c].Since < AutoForwardTimeout
                THEN [heap[c] EXCEPT !.Since =
                       IF @ + TickMinutes >= AutoForwardTimeout
                       THEN AutoForwardTimeout ELSE @ + TickMinutes]
                ELSE heap[c]]
  /\ UNCHANGED <<tpc, tlv, msgs, HandleAlerts, WebhookAlerts, alertchan,
                 callbacks, chats, members, answer, ctx, nodes, crashed>>

\* a chat member presses a button that message m shows
Press(m, u) ==
  /\ ~crashed /\ Len(callbacks) < MaxQueue
  /\ \E data \in msgs[m].kb :
       callbacks' = Append(callbacks, [Data |-> data, Sender |-> u, MessageID |-> m])
  /\ UNCHANGED <<heap, tpc, tlv, msgs, HandleAlerts, WebhookAlerts, alertchan,
                 chats, members, answer, ctx, nodes, crashed>>

\* the alert groups that can fire: they are named in the order in which
\* they first produce a case
FiringIDs ==
  {"X"} \cup (IF \E c \in Cases : heap[c].ID = "X" THEN AlertIDs ELSE {})

\* no lookup has been called on its own
NoAnswer ==
  [fn |-> "none", chat |-> 0, level |-> "", list |-> <<>>,
   result |-> [kind |-> "none", Username |-> ""]]

Init ==
  /\ heap = <<>> /\ tpc = <<>> /\ tlv = <<>> /\ msgs = <<>>
  /\ HandleAlerts = [id \in AlertIDs \cup {""} |-> <<>>]
  /\ WebhookAlerts = [id \in AlertIDs |-> <<>>]
  /\ alertchan = <<>> /\ callbacks = <<>>
  /\ chats \in InitialChats
  /\ members = Directory
  /\ crashed = FALSE
  /\ answer = NoAnswer
  /\ ctx = "live"
  /\ nodes = Nodes

Next ==
  \/ \E id \in FiringIDs : WebhookFiring(id)
  \/ \E id \in AlertIDs : WebhookResolved(id)
  \/ RunCallback
  \/ RunAlert
  \/ \E c \in Cases : AutoForward(c)
  \/ Tick
  \/ \E m \in 1..Len(msgs), u \in Users : Press(m, u)

Spec == Init /\ [][Next]_vars

\* ---- the handlers as alert.go has them: the edit comes first ----
\* EditMessageReplyMakeup returned an error
EditFailed(s, chat, mid, kb) ==
  [s EXCEPT !.out = Append(@, EditRec(chat, mid, kb))]

\* EditMessageReplyMakeup returned nil: the message shows the keyboard
EditDone(s, chat, mid, kb) ==
  [EditFailed(s, chat, mid, kb) EXCEPT !.msgs[mid].kb = kb]

\* Acknowledge of alert.go: clear the keyboard, on an error return; clear the
\* flag; send the notice, its error dropped
AcknowledgeEditFirst(s, c, sender) ==
  LET a == s.heap[c]
      Rest(s1) ==
        SendMessage([s1 EXCEPT !.heap[c].AutoForwardFlag = FALSE],
                    Notice("acknowledge", a.Chat, sender, ""))
  IN  {EditFailed(s, a.Chat, a.MessageID, {})}
      \cup (IF CanEdit(s, a.Chat, a.MessageID)
            THEN {Rest(EditDone(s, a.Chat, a.MessageID, {}))}
            ELSE {})

\* Forward of alert.go: leave the single Acknowledge button, on an error
\* return; raise the level; look a member up, on an error return; send the
\* notice, its error dropped
ForwardEditFirst(s, c, sender, data, dir) ==
  LET a == s.heap[c]
      Rest(s1) ==
        LET s2 == [s1 EXCEPT !.heap[c].Level = IncreaseLevel(@)]
            b  == s2.heap[c]
        IN  { IF r.kind = "err" THEN s2
              ELSE IF r.kind = "panic" THEN Panic(s2)
              ELSE SendMessage(s2, Notice("forward", b.Chat, sender, r.Username))
              : r \in GetRandomMemberByChatandLevel(dir, b.Chat, b.Level) }
  IN  {EditFailed(s, a.Chat, a.MessageID, {data})}
      \cup (IF CanEdit(s, a.Chat, a.MessageID)
            THEN Rest(EditDone(s, a.Chat, a.MessageID, {data}))
            ELSE {})

\* Resolved of alert.go: clear the keyboard, on an error return; clear the
\* flag; nothing is sent
ResolvedEditFirst(s, c) ==
  LET a == s.heap[c]
  IN  {EditFailed(s, a.Chat, a.MessageID, {})}
      \cup (IF CanEdit(s, a.Chat, a.MessageID)
            THEN {[EditDone(s, a.Chat, a.MessageID, {})
                     EXCEPT !.heap[c].AutoForwardFlag = FALSE]}
            ELSE {})

RECURSIVE ResolveAllEditFirst(_, _)
ResolveAllEditFirst(s, hs) ==
  IF hs = <<>> THEN {s}
  ELSE UNION { ResolveAllEditFirst(s2, Tail(hs))
               : s2 \in ResolvedEditFirst(s, Head(hs)) }

RECURSIVE ResolvedChatsEditFirst(_, _, _)
ResolvedChatsEditFirst(s, id, cs) ==
  IF cs = <<>> THEN {s}
  ELSE UNION { ResolvedChatsEditFirst(s2, id, Tail(cs))
               : s2 \in ResolveAllEditFirst(s, s.reg[id]) }

WebhookResolvedEditFirst(id) ==
  /\ ~crashed
  /\ \E s \in ResolvedChatsEditFirst(World, id, chats) : Commit(s)
  /\ UNCHANGED <<HandleAlerts, callbacks, chats, members, answer, ctx, nodes>>

RECURSIVE AcknowledgeAllEditFirst(_, _, _)
AcknowledgeAllEditFirst(s, hs, cb) ==
  IF hs = <<>> THEN {s}
  ELSE LET s1 == [s EXCEPT !.heap[Head(hs)].MessageID = cb.MessageID]
       IN  UNION { AcknowledgeAllEditFirst(s2, Tail(hs), cb)
                   : s2 \in AcknowledgeEditFirst(s1, Head(hs), cb.Sender) }

RECURSIVE ForwardAllEditFirst(_, _, _, _)
ForwardAllEditFirst(s, hs, cb, dir) ==
  IF hs = <<>> \/ s.crashed THEN {s}
  ELSE LET h == Head(hs)
           s1 == [s EXCEPT !.heap[h].MessageID = cb.MessageID]
           data == Marshal(NewCallbackData(strAcknowledgeData, s1.heap[h].ID))
       IN  UNION { ForwardAllEditFirst(s2, Tail(hs), cb, dir)
                   : s2 \in ForwardEditFirst(s1, h, cb.Sender, data, dir) }

HandleCallbackEditFirst(s, callback, reg, dir) ==
  LET cd == Decode(callback.Data)
  IN  IF cd.Button = strAcknowledgeData
      THEN AcknowledgeAllEditFirst(s, reg[cd.AlertID], callback)
      ELSE IF cd.Button = strForwardData
      THEN ForwardAllEditFirst(s, reg[cd.AlertID], callback, dir)
      ELSE {s}

RunCallbackEditFirst ==
  /\ ~crashed /\ ctx # "returned" /\ callbacks # <<>>
  /\ \E s \in HandleCallbackEditFirst(World, Head(callbacks), HandleAlerts, members) :
       Commit(s)
  /\ callbacks' = Tail(callbacks)
  /\ UNCHANGED <<HandleAlerts, chats, members, answer, ctx, nodes>>

\* the program with the handlers of alert.go
NextEditFirst ==
  \/ \E id \in FiringIDs : WebhookFiring(id)
  \/ \E id \in AlertIDs : WebhookResolvedEditFirst(id)
  \/ RunCallbackEditFirst
  \/ RunAlert
  \/ \E c \in Cases : AutoForward(c)
  \/ Tick
  \/ \E m \in 1..Len(msgs), u \in Users : Press(m, u)

SpecEditFirst == Init /\ [][NextEditFirst]_vars

\* ---- the member lookups on their own ----
\* the members a store can hold (the user name is the key of the store) and
\* the chats a lookup can name
LookupUniverse == Directory \cup {Member("dave", levelOne, 1)}
LookupChats == {1, 2}

\* the orders in which the Members record of a chat can list the members ms
Orders(ms) ==
  { f \in [1..Cardinality(ms) -> ms] :
      \A i, j \in 1..Cardinality(ms) : i # j => f[i] # f[j] }

\* the members of the list that have the level, in the order of the list
GroupByLevel(list, level) == SelectSeq(list, LAMBDA m : m.Level = level)

\* outcomes of GetRandomMemberByLevel of the first member store:
\* group[rand.Intn(len(group)-1)], and rand.Intn panics when its argument is
\* not positive
GetRandomMemberByLevel(list, level) ==
  LET group == GroupByLevel(list, level)
  IN  IF Len(group) - 1 <= 0
      THEN {[kind |-> "panic", Username |-> ""]}
      ELSE {[kind |-> "ok", Username |-> group[i + 1].Username]
            : i \in 0..(Len(group) - 2)}

OtherVarsIdle ==
  UNCHANGED <<heap, tpc, tlv, msgs, HandleAlerts, WebhookAlerts, alertchan,
              callbacks, chats, members, ctx, nodes, crashed>>

\* a call of MemberStore.GetRandomMemberByChatandLevel
LookupByChatandLevel(chat, level) ==
  /\ \E r \in GetRandomMemberByChatandLevel(members, chat, level) :
       answer' = [fn |-> "GetRandomMemberByChatandLevel", chat |-> chat,
                  level |-> level, list |-> <<>>, result |-> r]
  /\ OtherVarsIdle

\* a call of Members.GetRandomMemberByLevel on the record of the chat
LookupByLevel(chat, level) ==
  /\ \E list \in Orders(GetMembersByChat(members, chat)) :
       \E r \in GetRandomMemberByLevel(list, level) :
         answer' = [fn |-> "GetRandomMemberByLevel", chat |-> chat,
                    level |-> level, list |-> list, result |-> r]
  /\ OtherVarsIdle

InitLookup ==
  /\ heap = <<>> /\ tpc = <<>> /\ tlv = <<>> /\ msgs = <<>>
  /\ HandleAlerts = [id \in AlertIDs \cup {""} |-> <<>>]
  /\ WebhookAlerts = [id \in AlertIDs |-> <<>>]
  /\ alertchan = <<>> /\ callbacks = <<>>
  /\ chats = <<>>
  /\ members \in SUBSET LookupUniverse
  /\ crashed = FALSE
  /\ answer = NoAnswer
  /\ ctx = "live"
  /\ nodes = Nodes

NextLookup ==
  \/ \E chat \in LookupChats, level \in HandleLevel :
       LookupByChatandLevel(chat, level)
  \/ \E chat \in LookupChats, level \in HandleLevel :
       LookupByLevel(chat, level)

SpecLookup == InitLookup /\ [][NextLookup]_vars

\* ---- callbacks with any payload ----
\* payloads that no button of the bot carries: bytes that are no JSON, an
\* object with another action, an Acknowledge payload followed by bytes that
\* are no JSON, and an object followed by a second object
Payloads ==
  { <<"~">>,
    Marshal(NewCallbackData("Resolve", "X")),
    Marshal(NewCallbackData(strAcknowledgeData, "X")) \o <<"~">>,
    Marshal(NewCallbackData("Resolve", "X")) \o <<"{", "button", strForwardData, "}">> }

\* telebot hands the loop a callback query on the message m with the data
\* the client sent
Deliver(data, m, u) ==
  /\ ~crashed /\ Len(callbacks) < MaxQueue
  /\ callbacks' = Append(callbacks, [Data |-> data, Sender |-> u, MessageID |-> m])
  /\ UNCHANGED <<heap, tpc, tlv, msgs, HandleAlerts, WebhookAlerts, alertchan,
                 chats, members, answer, ctx, nodes, crashed>>

\* the program before a timeout has passed for any case: the AutoForward
\* goroutines are at their loop head and return when they find the flag
\* cleared
NextPayloads ==
  \/ \E id \in FiringIDs : WebhookFiring(id)
  \/ \E id \in AlertIDs : WebhookResolved(id)
  \/ RunCallback
  \/ RunAlert
  \/ \E c \in Cases : AutoForwardLoop(c)
  \/ \E m \in 1..Len(msgs), u \in Users : Press(m, u)
  \/ \E data \in Payloads, m \in 1..Len(msgs), u \in Users : Deliver(data, m, u)

SpecPayloads == Init /\ [][NextPayloads]_vars

\* ---- shutdown ----
\* the context of Bot.Run is cancelled
Cancel ==
  /\ ~crashed /\ ctx = "live"
  /\ ctx' = "done"
  /\ UNCHANGED <<heap, tpc, tlv, msgs, HandleAlerts, WebhookAlerts, alertchan,
                 callbacks, chats, members, answer, nodes, crashed>>

\* case <-ctx.Done(): return nil
RunDone ==
  /\ ~crashed /\ ctx = "done"
  /\ ctx' = "returned"
  /\ UNCHANGED <<heap, tpc, tlv, msgs, HandleAlerts, WebhookAlerts, alertchan,
                 callbacks, chats, members, answer, nodes, crashed>>

\* the program up to the return of the dispatch loop, with firing
\* notifications of one alert group
NextShutdown ==
  \/ Cancel
  \/ RunDone
  \/ ctx # "returned" /\ WebhookFiring("X")
  \/ ctx # "returned" /\ RunCallback
  \/ ctx # "returned" /\ RunAlert
  \/ ctx # "returned" /\ \E c \in Cases : AutoForward(c)
  \/ ctx # "returned" /\ Tick
  \/ ctx # "returned" /\ \E m \in 1..Len(msgs), u \in Users : Press(m, u)

\* the bot is subscribed to one chat
InitShutdown == Init /\ chats = <<1>>

SpecShutdown == InitShutdown /\ [][NextShutdown]_vars

\* ---- the timers on their own ----
\* the program while no button is pressed and no alert is resolved
NextTimers ==
  \/ \E id \in FiringIDs : WebhookFiring(id)
  \/ RunAlert
  \/ \E c \in Cases : AutoForward(c)
  \/ Tick

\* time passes, the dispatch loop runs, and every AutoForward goroutine
\* that can take a step is scheduled
FairTimers ==
  /\ WF_vars(Tick)
  /\ WF_vars(RunAlert)
  /\ \A c \in 1..MaxCases : WF_vars(c \in Cases /\ AutoForward(c))

SpecTimers == Init /\ [][NextTimers]_vars /\ FairTimers

\* ---- the program with one chat and one firing notification, under fair
\* scheduling ----
NextFair ==
  \/ Cases = {} /\ WebhookFiring("X")
  \/ WebhookResolved("X")
  \/ RunCallback
  \/ RunAlert
  \/ \E c \in Cases : AutoForward(c)
  \/ Tick
  \/ \E m \in 1..Len(msgs), u \in Users : Press(m, u)

SpecFair == InitShutdown /\ [][NextFair]_vars /\ FairTimers

\* ---- vocabulary of the properties ----
AckData(id) == Marshal(NewCallbackData(strAcknowledgeData, id))
FwdData(id) == Marshal(NewCallbackData(strForwardData, id))

LevelNumber(l) == IF l = levelOne THEN 1 ELSE IF l = levelTwo THEN 2 ELSE 3

\* the case has been acknowledged or resolved: only Acknowledge and Resolved
\* clear the flag, and nothing sets it again
Terminal(c) == ~heap[c].AutoForwardFlag

\* the loop is about to take a callback of the given button whose alert ID
\* is registered with exactly the case c
Pending(button, c) ==
  /\ ~crashed /\ callbacks # <<>>
  /\ Decode(Head(callbacks).Data).Button = button
  /\ HandleAlerts[Decode(Head(callbacks).Data).AlertID] = <<c>>

\* what the loop can make of the callback at the head of the channel
Outcomes == HandleCallback(World, Head(callbacks), HandleAlerts, members)

\* a step wrote a field of the case c (Since only falls when LastUpdate is
\* assigned)
FieldWritten(c) ==
  \/ heap'[c].Level # heap[c].Level
  \/ heap'[c].AutoForwardFlag # heap[c].AutoForwardFlag
  \/ heap'[c].MessageID # heap[c].MessageID
  \/ heap'[c].Since < heap[c].Since

\* no two cases of the list that are both active belong to the same chat
OnePerChat(hs) ==
  \A i, j \in 1..Len(hs) :
    (i # j /\ heap[hs[i]].AutoForwardFlag /\ heap[hs[j]].AutoForwardFlag)
      => heap[hs[i]].Chat # heap[hs[j]].Chat

\* ---- C1 ----
\* C1: once a case is acknowledged or resolved, no step changes its level.
C1_LevelFrozenAfterTerminal ==
  [][\A c \in Cases : Terminal(c) => heap'[c].Level = heap[c].Level]_vars

\* ---- C2 ----
\* C2: a timer routine that has passed its activity check, on a case that
\* has been acknowledged or resolved in the meantime, sends no notice.
C2_NoNoticeAfterTerminal ==
  \A c \in Cases :
    (~crashed /\ tpc[c] = "incw" /\ Terminal(c))
      => \A s \in AutoForwardAssign(World, c, members) : s.out = <<>>

\* ---- C3 ----
\* C3: every step that writes a field of a case (level, last-activity time,
\* flag, message reference) is a step of the dispatch loop taking a callback.
C3_OnlyLoopWrites ==
  [][(\E c \in Cases : FieldWritten(c))
       => (callbacks # <<>> /\ callbacks' = Tail(callbacks))]_vars

\* ---- C4 ----
\* C4: on a case that is acknowledged or resolved, a further Acknowledge or
\* Forward callback and a further resolved notification change nothing and
\* send or edit nothing.
C4_TerminalNoOp ==
  /\ \A c \in Cases :
       ((Pending(strAcknowledgeData, c) \/ Pending(strForwardData, c)) /\ Terminal(c))
         => Outcomes = {World}
  /\ \A id \in AlertIDs :
       (/\ ~crashed /\ WebhookAlerts[id] # <<>>
        /\ \A i \in 1..Len(WebhookAlerts[id]) : Terminal(WebhookAlerts[id][i]))
         => ResolvedChats(World, id, chats) = {World}

\* ---- C5 ----
\* C5: in every step the level of every case is one of the three levels and
\* is the old level or the old level plus one.
C5_LevelMonotone ==
  [][\A c \in Cases :
       /\ heap'[c].Level \in HandleLevel
       /\ LevelNumber(heap'[c].Level) \in
            {LevelNumber(heap[c].Level), LevelNumber(heap[c].Level) + 1}]_vars

\* ---- C6 ----
\* C6: firing notifications with the same correlation ID leave one tracked
\* case for that ID (and chat) in the registry of the dispatch loop and in
\* the registry of the webhook routine.
C6_OneTrackedCase ==
  \A id \in AlertIDs :
    OnePerChat(HandleAlerts[id]) /\ OnePerChat(WebhookAlerts[id])

\* ---- C7 ----
\* C7: no two escalation timers run for the same correlation ID (and chat).
C7_OneTimerPerID ==
  \A c1, c2 \in Cases :
    (c1 # c2 /\ heap[c1].ID = heap[c2].ID /\ heap[c1].Chat = heap[c2].Chat)
      => (tpc[c1] = "done" \/ tpc[c2] = "done")

\* ---- C8 ----
\* the members of the chat and level of the case c in the outcome s
Assignees(s, c) ==
  { m.Username : m \in { x \in members : x.Chat = s.heap[c].Chat
                                         /\ x.Level = s.heap[c].Level } }

\* the calls a Forward issues for the case c: none when the lookup fails,
\* else the forward notice naming the actor and a member of the new level,
\* then at most the edit that leaves the single Acknowledge button
ForwardCalls(s, c) ==
  LET cb == Head(callbacks)
  IN  \/ s.out = <<>>
      \/ /\ Len(s.out) \in {1, 2}
         /\ \E to \in Assignees(s, c) :
              s.out[1] = Notice("forward", heap[c].Chat, cb.Sender, to)
         /\ Len(s.out) = 2
              => s.out[2] = EditRec(heap[c].Chat, cb.MessageID, {AckData(heap[c].ID)})

\* the keyboards after a Forward: as before, or the message the button was
\* pressed on shows the single Acknowledge button
ForwardRow(s, c) ==
  LET cb == Head(callbacks)
  IN  \/ s.msgs = msgs
      \/ /\ Len(s.out) = 2
         /\ s.msgs = [msgs EXCEPT ![cb.MessageID].kb = {AckData(heap[c].ID)}]

\* C8 as the code has it: a Forward callback on an active case at level 1
\* raises it to level 2 and, when the lookup succeeds, sends a forward notice
\* naming the actor and a level-2 member of the chat; after a Forward callback
\* on a case of any level the control row the handler writes holds the
\* Acknowledge button alone.
C8_ForwardLeavesAcknowledgeOnly ==
  \A c \in Cases :
    Pending(strForwardData, c) =>
      \A s \in Outcomes :
        /\ (heap[c].Level = levelOne /\ heap[c].AutoForwardFlag)
             => s.heap[c] = [heap[c] EXCEPT !.Level = levelTwo,
                                            !.MessageID = Head(callbacks).MessageID]
        /\ ForwardCalls(s, c)
        /\ ForwardRow(s, c)

\* C8 is exercised: a Forward callback is pending on an active case at
\* level 1 and has an outcome that sent the notice and rewrote the row
C8_Witness ==
  \E c \in Cases :
    /\ Pending(strForwardData, c)
    /\ heap[c].Level = levelOne /\ heap[c].AutoForwardFlag
    /\ \E s \in Outcomes : Len(s.out) = 2 /\ s.msgs # msgs

\* C8 as stated: the control row a Forward writes contains the Forward button
\* exactly when the new level is below level 3 (so both buttons after a
\* Forward at level 1).
C8_ForwardKeptBelowL3 ==
  \A c \in Cases :
    Pending(strForwardData, c) =>
      \A s \in Outcomes :
        Len(s.out) = 2 =>
          /\ AckData(heap[c].ID) \in s.out[2].kb
          /\ FwdData(heap[c].ID) \in s.out[2].kb <=> s.heap[c].Level # levelThree

\* ---- C9 ----
\* C9: when the timer routine escalates an active case from level 2, the
\* case is at level 3 afterwards and no message of its chat shows the
\* Forward button of its alert any more.
C9_TimerHidesForward ==
  \A c \in Cases :
    (/\ ~crashed /\ tpc[c] = "incw" /\ tlv[c] = levelThree
     /\ heap[c].Level = levelTwo /\ heap[c].AutoForwardFlag)
      => \A s \in AutoForwardAssign(World, c, members) :
           /\ s.heap[c].Level = levelThree
           /\ \A m \in 1..Len(s.msgs) :
                s.msgs[m].chat = heap[c].Chat
                  => FwdData(heap[c].ID) \notin s.msgs[m].kb

\* ---- C10 ----
\* C10: a Forward callback on a case at level 3 leaves the level at 3, and
\* every control row it writes is free of Forward buttons.
C10_ForwardAtTop ==
  \A c \in Cases :
    (Pending(strForwardData, c) /\ heap[c].Level = levelThree) =>
      \A s \in Outcomes :
        /\ s.heap[c].Level = levelThree
        /\ \A i \in 1..Len(s.out) :
             s.out[i].op = "edit"
               => \A d \in s.out[i].kb : Decode(d).Button # strForwardData
        /\ s.msgs # msgs
             => \A d \in s.msgs[Head(callbacks).MessageID].kb :
                  Decode(d).Button # strForwardData

\* C10 is exercised: a Forward callback is pending on a case at level 3,
\* pressed on a message that shows the Forward button, and has an outcome
\* that rewrote the row
C10_Witness ==
  \E c \in Cases :
    /\ Pending(strForwardData, c) /\ heap[c].Level = levelThree
    /\ Head(callbacks).Data \in msgs[Head(callbacks).MessageID].kb
    /\ \E s \in Outcomes : s.msgs # msgs

\* ---- C11 ----
\* C11: on a case at level 3 a Forward callback, and a timer expiry, send no
\* notice and change no field of the case (the loop's assignment of the
\* message reference apart).
C11_TopLevelNoOp ==
  /\ \A c \in Cases :
       (Pending(strForwardData, c) /\ heap[c].Level = levelThree)
         => \A s \in Outcomes :
              /\ s.out = <<>>
              /\ s.heap[c] = [heap[c] EXCEPT !.MessageID = Head(callbacks).MessageID]
  /\ \A c \in Cases :
       (/\ ~crashed /\ tpc[c] = "flag" /\ heap[c].AutoForwardFlag
        /\ heap[c].Since >= AutoForwardTimeout /\ heap[c].Level = levelThree)
         => \A s \in AutoForwardTest(World, c, members) :
              s.out = <<>> /\ s.heap[c] = heap[c]

\* ---- C12 ----
\* C12: an Acknowledge callback on a tracked active case clears the flag and
\* leaves the level and the last-activity time alone; it issues the
\* acknowledgment notice naming the sender to the chat of the case, then at
\* most the edit that empties the control row of the message the button was
\* pressed on; the keyboards are as before or that row is empty.
C12_AcknowledgeActive ==
  \A c \in Cases :
    (Pending(strAcknowledgeData, c) /\ heap[c].AutoForwardFlag) =>
      \A s \in Outcomes :
        LET cb == Head(callbacks)
        IN  /\ s.heap[c] = [heap[c] EXCEPT !.AutoForwardFlag = FALSE,
                                           !.MessageID = cb.MessageID]
            /\ Len(s.out) \in {1, 2}
            /\ s.out[1] = Notice("acknowledge", heap[c].Chat, cb.Sender, "")
            /\ Len(s.out) = 2 => s.out[2] = EditRec(heap[c].Chat, cb.MessageID, {})
            /\ \/ s.msgs = msgs
               \/ /\ Len(s.out) = 2
                  /\ s.msgs = [msgs EXCEPT ![cb.MessageID].kb = {}]

\* C12 is exercised: an Acknowledge callback is pending on an active case
\* and has an outcome that sent the notice and emptied the row
C12_Witness ==
  \E c \in Cases :
    /\ Pending(strAcknowledgeData, c) /\ heap[c].AutoForwardFlag
    /\ \E s \in Outcomes :
         Len(s.out) = 2 /\ s.msgs[Head(callbacks).MessageID].kb = {} /\ s.msgs # msgs

\* ---- C13 ----
\* what the loop of the alert.go handlers can make of the callback at the
\* head of the channel
OutcomesEditFirst ==
  HandleCallbackEditFirst(World, Head(callbacks), HandleAlerts, members)

\* no message of the chat shows a button of the alert
ControlsCleared(s, id, chat) ==
  \A m \in 1..Len(s.msgs) :
    s.msgs[m].chat = chat => \A d \in s.msgs[m].kb : Decode(d).AlertID # id

\* C13: a resolved notification for a tracked correlation ID can, the
\* transport permitting, leave every case of the ID with its timer stopped
\* and its controls cleared, a resolution notice sent to its chat.
C13_ResolveCase ==
  \A id \in AlertIDs :
    (~crashed /\ WebhookAlerts[id] # <<>>) =>
      \E s \in ResolvedChatsEditFirst(World, id, chats) :
        \A i \in 1..Len(WebhookAlerts[id]) :
          LET c == WebhookAlerts[id][i]
          IN  /\ ~s.heap[c].AutoForwardFlag
              /\ ControlsCleared(s, id, heap[c].Chat)
              /\ \E k \in 1..Len(s.out) :
                   s.out[k].op = "send" /\ s.out[k].chat = heap[c].Chat

\* ---- C14 ----
\* C14: whatever the transport does, an Acknowledge callback leaves the case
\* with its flag cleared, a Forward callback below level 3 leaves it one
\* level higher, and a resolved notification leaves every case of the ID with
\* its flag cleared.
C14_TransitionStands ==
  /\ \A c \in Cases :
       Pending(strAcknowledgeData, c)
         => \A s \in OutcomesEditFirst : ~s.heap[c].AutoForwardFlag
  /\ \A c \in Cases :
       (Pending(strForwardData, c) /\ heap[c].Level # levelThree)
         => \A s \in OutcomesEditFirst :
              LevelNumber(s.heap[c].Level) = LevelNumber(heap[c].Level) + 1
  /\ \A id \in AlertIDs :
       ~crashed =>
         \A s \in ResolvedChatsEditFirst(World, id, chats) :
           \A i \in 1..Len(WebhookAlerts[id]) :
             ~s.heap[WebhookAlerts[id][i]].AutoForwardFlag

\* ---- C15 ----
\* C15: when the lookup returns an error, a Forward callback leaves the
\* level of the case as it was, and an iteration of the timer routine leaves
\* the level and the last-activity time as they were.
C15_LookupFailureKeepsState ==
  /\ \A c \in Cases :
       Pending(strForwardData, c)
         => \A s \in Outcomes :
              (s.out = <<>> /\ ~s.crashed) => s.heap[c].Level = heap[c].Level
  /\ \A c \in Cases :
       (~crashed /\ tpc[c] = "incw")
         => \A s \in AutoForwardAssign(World, c, members) :
              s.tpc[c] = "done" => s.heap[c].Level = heap[c].Level
  /\ \A c \in Cases :
       (/\ ~crashed /\ tpc[c] = "flag" /\ heap[c].AutoForwardFlag
        /\ heap[c].Since >= AutoForwardTimeout /\ heap[c].Level = levelThree)
         => \A s \in AutoForwardTest(World, c, members) :
              s.tpc[c] = "done" => s.heap[c] = heap[c]

\* ---- C16 ----
\* the user names of the stored members of the chat and level of the call
Candidates ==
  { m.Username : m \in { x \in members : x.Chat = answer.chat
                                         /\ x.Level = answer.level } }

\* C16: a lookup for a chat and level without a member returns an error: it
\* neither panics nor returns a member.
C16_EmptyLookupFails ==
  (answer.fn # "none" /\ Candidates = {}) => answer.result.kind = "err"

\* ---- C17 ----
\* the results the call recorded in answer can have
PossibleResults ==
  IF answer.fn = "GetRandomMemberByLevel"
  THEN GetRandomMemberByLevel(answer.list, answer.level)
  ELSE GetRandomMemberByChatandLevel(members, answer.chat, answer.level)

\* C17: a member that a lookup returns is a stored member of the chat and
\* level, and every stored member of the chat and level is a possible
\* result.
C17_LookupRangesOverAll ==
  answer.fn # "none" =>
    /\ answer.result.kind = "ok" => answer.result.Username \in Candidates
    /\ \A u \in Candidates : [kind |-> "ok", Username |-> u] \in PossibleResults

\* ---- C18 ----
\* C18: a Forward callback on an active case whose notice was sent and whose
\* edit took effect leaves the last-activity time of the case at the time of
\* the forward.
C18_ForwardRestartsTimer ==
  \A c \in Cases :
    (Pending(strForwardData, c) /\ heap[c].AutoForwardFlag) =>
      \A s \in Outcomes :
        (Len(s.out) = 2 /\ s.msgs # msgs) => s.heap[c].Since = 0

\* ---- C19 ----
\* C19: the timer routine starts an escalation only when a full timeout has
\* passed since the last one, and carries no escalation out on a case that
\* is no longer active.
C19_OneFirePerDeadline ==
  [][\A c \in Cases :
       /\ (tpc[c] = "flag" /\ tpc'[c] = "incw")
            => heap[c].Since >= AutoForwardTimeout
       /\ (tpc[c] = "incw" /\ tpc'[c] # "incw")
            => heap[c].AutoForwardFlag]_vars

\* ---- C20 ----
\* the webhook routine can take a firing notification for the ID
FiringEnabled(id) ==
  /\ ~crashed /\ id \in FiringIDs
  /\ Len(heap) + Len(chats) <= MaxCases
  /\ Len(msgs) + Len(chats) <= MaxCases

Untracked(id) == \A c \in Cases : heap[c].ID # id

\* the message with the two buttons of the alert, as sent to the chat
AlertMessage(id, chat) ==
  [op |-> "send", chat |-> chat, kind |-> "alert", from |-> "", to |-> "",
   mid |-> 0, kb |-> {AckData(id), FwdData(id)}]

\* C20: a firing notification for an untracked correlation ID creates, chat
\* by chat, cases at level 1 with the flag set, a fresh last-activity time
\* and their AutoForward goroutine at its loop head, leaves the other cases
\* alone, and hands the new cases to the dispatch loop and to the registry
\* of the webhook routine; for every new case it has sent to the chat of the
\* case the message whose control row holds exactly the Acknowledge and the
\* Forward button, each with the correlation ID, and then the notice naming
\* a level-1 member of that chat.
C20_FiringCreatesCase ==
  \A id \in AlertIDs :
    (FiringEnabled(id) /\ Untracked(id)) =>
      \A s \in FiringChats(World, id, chats, members) :
        LET n == Len(s.heap) - Len(heap)
            new == [k \in 1..n |-> Len(heap) + k]
        IN  /\ n \in 0..Len(chats)
            /\ \A c \in Cases : s.heap[c] = heap[c] /\ s.tpc[c] = tpc[c]
            /\ \A k \in 1..n :
                 /\ s.heap[new[k]] =
                      [ID |-> id, MessageID |-> 0, Chat |-> chats[k],
                       Level |-> levelOne, Since |-> 0, AutoForwardFlag |-> TRUE]
                 /\ s.tpc[new[k]] = "flag"
                 /\ s.out[2 * k - 1] = AlertMessage(id, chats[k])
                 /\ \E m \in members :
                      /\ m.Chat = chats[k] /\ m.Level = levelOne
                      /\ s.out[2 * k] = Notice("assign", chats[k], "", m.Username)
            /\ s.alertchan = alertchan \o new
            /\ s.reg = [WebhookAlerts EXCEPT ![id] = new]

\* C20 is exercised: a case created by a firing notification for an ID
\* that was untracked waits for the dispatch loop, untouched, and its chat
\* shows a message with both buttons of the alert
C20_Witness ==
  \E c \in Cases :
    /\ heap[c] = [ID |-> heap[c].ID, MessageID |-> 0, Chat |-> heap[c].Chat,
                  Level |-> levelOne, Since |-> 0, AutoForwardFlag |-> TRUE]
    /\ tpc[c] = "flag"
    /\ alertchan # <<>> /\ Head(alertchan) = c
    /\ WebhookAlerts[heap[c].ID][1] = c
    /\ \E m \in 1..Len(msgs) :
         msgs[m] = [chat |-> heap[c].Chat,
                    kb |-> {AckData(heap[c].ID), FwdData(heap[c].ID)}]

\* ---- C21 ----
\* the nodes that NodeStore.List returns
NodeStoreList(store) == { store[k] : k \in DOMAIN store }

\* the owners of the nodes of the store that are named like the ID
OwnersIn(store, id) ==
  { n.Owner : n \in { x \in NodeStoreList(store) : x.Name = id /\ x.Owner # "" } }

Owners(id) == OwnersIn(nodes, id)

\* the user names of the members of the chat that have the level
MembersOf(chat, level) ==
  { m.Username : m \in { x \in members : x.Chat = chat /\ x.Level = level } }

\* the notices of the kind among the calls of the outcome s
NoticesOf(s, kind) ==
  { s.out[i] : i \in { k \in 1..Len(s.out) : s.out[k].kind = kind } }

\* C21: the assignment sent when a case is created names the owner of the
\* node named like the correlation ID when there is one, otherwise a level-1
\* member of the chat; the notice of a Forward callback and of a timer
\* escalation names a member of the chat at the new level of the case.
C21_OwnerAtCreationOnly ==
  /\ \A id \in AlertIDs :
       FiringEnabled(id) =>
         \A s \in FiringChats(World, id, chats, members) :
           \A n \in NoticesOf(s, "assign") :
             IF Owners(id) # {} THEN n.to \in Owners(id)
             ELSE n.to \in MembersOf(n.chat, levelOne)
  /\ \A c \in Cases :
       Pending(strForwardData, c) =>
         \A s \in Outcomes :
           \A n \in NoticesOf(s, "forward") :
             n.to \in MembersOf(heap[c].Chat, s.heap[c].Level)
  /\ \A c \in Cases :
       (~crashed /\ tpc[c] = "incw") =>
         \A s \in AutoForwardAssign(World, c, members) :
           \A n \in NoticesOf(s, "autoforward") :
             n.to \in MembersOf(heap[c].Chat, s.heap[c].Level)

\* ---- C22 ----
\* the payload is not the text of one JSON object
Malformed(data) == data = <<>> \/ ObjectEnd(data) # Len(data)

\* the loop is about to take a callback
CallbackPending == ~crashed /\ callbacks # <<>>

\* C22: the loop drops a callback whose payload is malformed or whose action
\* is neither Acknowledge nor Forward: no field of a case changes, nothing is
\* sent or edited, and the loop goes on.
C22_BadPayloadDropped ==
  (/\ CallbackPending
   /\ \/ Malformed(Head(callbacks).Data)
      \/ Decode(Head(callbacks).Data).Button \notin {strAcknowledgeData, strForwardData})
    => Outcomes = {World}

\* ---- C23 ----
\* C23: an Acknowledge or Forward callback whose correlation ID has no case
\* in the map of the dispatch loop, and a resolved notification whose
\* correlation ID has no case in the map of the webhook routine, create and
\* change no case and send and edit nothing.
C23_UnknownIDNoOp ==
  /\ (/\ CallbackPending
      /\ Decode(Head(callbacks).Data).Button \in {strAcknowledgeData, strForwardData}
      /\ HandleAlerts[Decode(Head(callbacks).Data).AlertID] = <<>>)
       => Outcomes = {World}
  /\ \A id \in AlertIDs :
       (~crashed /\ WebhookAlerts[id] = <<>>)
         => ResolvedChats(World, id, chats) = {World}

\* C23 is exercised: the loop is about to take an Acknowledge or Forward
\* callback, pressed on a message of an alert whose case exists and is active
\* but has not come to the map of the loop
C23_Witness ==
  /\ CallbackPending
  /\ Decode(Head(callbacks).Data).Button \in {strAcknowledgeData, strForwardData}
  /\ HandleAlerts[Decode(Head(callbacks).Data).AlertID] = <<>>
  /\ Head(callbacks).Data \in msgs[Head(callbacks).MessageID].kb
  /\ \E c \in Cases :
       /\ heap[c].ID = Decode(Head(callbacks).Data).AlertID
       /\ heap[c].AutoForwardFlag

\* ---- C24 ----
\* C24: whatever notifications, callbacks and timer expiries occur, and
\* whatever the member store holds for a chat and level, the dispatch loop
\* keeps running.
C24_LoopNeverStops == ~crashed

\* ---- C25 ----
\* C25: the dispatch loop takes the events of its channels in the order of
\* their arrival.  Its select takes any channel that is ready, so the order
\* of arrival decides what it takes next only while at most one of alertchan
\* and callbacks holds an event: the loop is never left the choice between a
\* waiting case and a waiting callback.
C25_ArrivalOrder == ~(~crashed /\ alertchan # <<>> /\ callbacks # <<>>)

\* ---- C26 ----
\* C26: the dispatch loop returns on shutdown only when none of its channels
\* holds an event, and once the context is cancelled no AutoForward goroutine
\* sends a notice.
C26_DrainAndCancel ==
  [][/\ (ctx = "done" /\ ctx' = "returned")
          => (alertchan = <<>> /\ callbacks = <<>>)
     /\ \A c \in Cases :
          (ctx # "live" /\ ~crashed /\ tpc[c] = "incw")
            => \A s \in AutoForwardAssign(World, c, members) : s.out = <<>>]_vars

\* ---- C27 ----
\* C27: an active case below level 3 on which no button is pressed and which
\* is not resolved eventually is at level 3.
C27_ReachesTop ==
  \A c \in 1..MaxCases :
    (c \in Cases /\ heap[c].AutoForwardFlag /\ heap[c].Level # levelThree)
      ~> (c \in Cases /\ heap[c].Level = levelThree)

\* ---- C28 ----
\* C28: the data of a button for an action and a correlation ID decodes to
\* that action and that ID, and the loop runs Acknowledge, respectively
\* Forward, on the tracked case for whose ID the pressed button was built.
C28_RoundTrip ==
  /\ \A b \in {strAcknowledgeData, strForwardData}, id \in AlertIDs :
       Decode(Marshal(NewCallbackData(b, id))) = NewCallbackData(b, id)
  /\ \A c \in Cases :
       (CallbackPending /\ HandleAlerts[heap[c].ID] = <<c>>) =>
         /\ Head(callbacks).Data = AckData(heap[c].ID)
              => Outcomes = AcknowledgeAll(World, <<c>>, Head(callbacks))
         /\ Head(callbacks).Data = FwdData(heap[c].ID)
              => Outcomes = ForwardAll(World, <<c>>, Head(callbacks), members)

\* C28 is exercised: the Forward button of a message of the alert of a
\* tracked case was pressed, and the loop is about to take the callback
C28_Witness ==
  \E c \in Cases :
    /\ CallbackPending /\ HandleAlerts[heap[c].ID] = <<c>>
    /\ Head(callbacks).Data = FwdData(heap[c].ID)
    /\ msgs[Head(callbacks).MessageID].chat = heap[c].Chat
    /\ Head(callbacks).Data \in msgs[Head(callbacks).MessageID].kb

\* ---- C29 ----
\* C29: a flag that is cleared stays cleared, an AutoForward goroutine that
\* has returned stays returned, and the goroutine of a case whose flag is
\* cleared eventually returns (or the process has ended).
C29_CancelledForGood ==
  /\ [][\A c \in Cases :
         /\ ~heap[c].AutoForwardFlag => ~heap'[c].AutoForwardFlag
         /\ tpc[c] = "done" => tpc'[c] = "done"]_vars
  /\ \A c \in 1..MaxCases :
       (c \in Cases /\ ~heap[c].AutoForwardFlag)
         ~> (c \in Cases /\ (tpc[c] = "done" \/ crashed))

\* C29 is exercised: the flag of a case was cleared while its goroutine was
\* in an iteration that escalates, past its test of the flag
C29_Witness ==
  \E c \in Cases :
    ~crashed /\ ~heap[c].AutoForwardFlag /\ tpc[c] = "incw"

\* ---- C30 ----
\* C30: a firing notification that the process survives has the alert
\* message sent to every subscribed chat, whether or not a case was created
\* for the chats before it in the list.
C30_EveryChatServed ==
  \A id \in AlertIDs :
    FiringEnabled(id) =>
      \A s \in FiringChats(World, id, chats, members) :
        ~s.crashed =>
          \A k \in 1..Len(chats) :
            \E i \in 1..Len(s.out) : s.out[i] = AlertMessage(id, chats[k])

\* ---- C31 ----
\* C31: an escalation of the timer routine and a Forward callback on the same
\* case do not interleave: the level the goroutine is about to assign is the
\* level after the one the case has, its step raises the case by one level,
\* and its notice names a member of the chat at that level; a Forward
\* callback raises an active case below level 3 by one level and its notice
\* names a member of the chat at that level.
C31_Serialized ==
  /\ \A c \in Cases :
       (~crashed /\ tpc[c] = "incw") =>
         /\ tlv[c] = IncreaseLevel(heap[c].Level)
         /\ \A s \in AutoForwardAssign(World, c, members) :
              /\ LevelNumber(s.heap[c].Level) = LevelNumber(heap[c].Level) + 1
              /\ \A n \in NoticesOf(s, "autoforward") :
                   n.to \in MembersOf(heap[c].Chat, s.heap[c].Level)
  /\ \A c \in Cases :
       (Pending(strForwardData, c) /\ heap[c].Level # levelThree) =>
         \A s \in Outcomes :
           /\ LevelNumber(s.heap[c].Level) = LevelNumber(heap[c].Level) + 1
           /\ \A n \in NoticesOf(s, "forward") :
                n.to \in MembersOf(heap[c].Chat, s.heap[c].Level)

\* ---- C32 ----
\* C32: when the loop has run an Acknowledge callback for a correlation ID
\* it tracks, no case created for that ID, in whatever chat, is still
\* escalating: its flag is cleared or its goroutine has returned.
C32_AcknowledgeStopsAll ==
  (/\ CallbackPending
   /\ Decode(Head(callbacks).Data).Button = strAcknowledgeData
   /\ HandleAlerts[Decode(Head(callbacks).Data).AlertID] # <<>>)
    => \A s \in Outcomes :
         \A c \in Cases :
           heap[c].ID = Decode(Head(callbacks).Data).AlertID
             => (~s.heap[c].AutoForwardFlag \/ s.tpc[c] = "done")

\* ---- C33 ----
\* the case c0 was resolved before a member touched it (only Resolved clears
\* the flag of a case whose message reference no callback has set), and the
\* active case c was created afterwards for the same ID and chat and has
\* been taken from alertchan by the loop
Refired(c0, c) ==
  /\ c0 < c /\ heap[c0].ID = heap[c].ID /\ heap[c0].Chat = heap[c].Chat
  /\ ~heap[c0].AutoForwardFlag /\ heap[c0].MessageID = 0
  /\ heap[c].AutoForwardFlag
  /\ \A i \in 1..Len(alertchan) : alertchan[i] # c

\* the list holds the case
Holds(hs, c) == \E i \in 1..Len(hs) : hs[i] = c

\* C33: the case that a firing notification creates for a correlation ID
\* whose earlier case is resolved is in the map of the dispatch loop, and an
\* Acknowledge or Forward callback for the ID acts on it and leaves the
\* resolved case alone: Acknowledge clears its flag, Forward raises its
\* level.
C33_RefiringTracked ==
  \A c0, c \in Cases :
    Refired(c0, c) =>
      /\ ~crashed => Holds(HandleAlerts[heap[c].ID], c)
      /\ (CallbackPending /\ Decode(Head(callbacks).Data).AlertID = heap[c].ID) =>
           \A s \in Outcomes :
             /\ s.heap[c0] = heap[c0]
             /\ Decode(Head(callbacks).Data).Button = strAcknowledgeData
                  => ~s.heap[c].AutoForwardFlag
             /\ Decode(Head(callbacks).Data).Button = strForwardData
                  => s.heap[c].Level = IncreaseLevel(heap[c].Level)

\* ---- C34 ----
\* C34: while the process runs, the AutoForward goroutine of every case
\* whose flag is set has not returned.
C34_ActiveHasTimer ==
  \A c \in Cases :
    (~crashed /\ heap[c].AutoForwardFlag) => tpc[c] # "done"

\* ---- C35 ----
\* NewAlert of the last revision in callback.go, which sends the alert
\* message itself: an error of that send returns before a case exists; the
\* case carries the ID of the message; an error of NodeStore.List returns;
\* the owner of the node named like the ID, or else a level-1 member of the
\* chat, is chosen; the AutoForward goroutine is started; the assignment is
\* sent, and an error of that send returns no case although the goroutine
\* runs.  The results are the new state and whether a case was returned
NewAlertWithMessage(s, id, chat, dir) ==
  LET s0 == [s EXCEPT !.out = Append(@, AlertMessage(id, chat))]
      s1 == [s0 EXCEPT !.msgs = Append(@, [chat |-> chat,
                                            kb |-> {AckData(id), FwdData(id)}])]
      a  == [ID |-> id, MessageID |-> Len(s1.msgs), Chat |-> chat,
             Level |-> levelOne, Since |-> 0, AutoForwardFlag |-> TRUE]
      Started == [s1 EXCEPT !.heap = Append(@, a),
                            !.tpc = Append(@, "flag"),
                            !.tlv = Append(@, "")]
      Assign(memberID) ==
        LET s2 == SendMessage(Started, Notice("assign", chat, "", memberID))
        IN  {[s |-> s2, created |-> FALSE], [s |-> s2, created |-> TRUE]}
  IN  {[s |-> s0, created |-> FALSE], [s |-> s1, created |-> FALSE]}
      \cup (IF Owners(id) # {}
            THEN UNION { Assign(o) : o \in Owners(id) }
            ELSE UNION { IF r.kind = "err" THEN {[s |-> s1, created |-> FALSE]}
                         ELSE IF r.kind = "panic"
                         THEN {[s |-> Panic(s1), created |-> FALSE]}
                         ELSE Assign(r.Username)
                         : r \in GetRandomMemberByChatandLevel(dir, chat, levelOne) })

\* the firing branch of Bot.sendWebhook from the creation of the case on,
\* for the chats cs: a failed NewAlert breaks out of the loop over the chats,
\* a case goes to alertchan and into the map of the routine
RECURSIVE FiringChatsWithMessage(_, _, _, _)
FiringChatsWithMessage(s, id, cs, dir) ==
  IF cs = <<>> THEN {s}
  ELSE
    LET Enqueue(s2) ==
          [s2 EXCEPT !.alertchan = Append(@, Len(s2.heap)),
                     !.reg[id] = Append(@, Len(s2.heap))]
    IN  UNION { IF r.created
                THEN FiringChatsWithMessage(Enqueue(r.s), id, Tail(cs), dir)
                ELSE {r.s}
                : r \in NewAlertWithMessage(s, id, Head(cs), dir) }

WebhookFiringWithMessage(id) ==
  /\ ~crashed
  /\ Len(heap) + Len(chats) <= MaxCases
  /\ Len(msgs) + Len(chats) <= MaxCases
  /\ \E s \in FiringChatsWithMessage(World, id, chats, members) : Commit(s)
  /\ UNCHANGED <<HandleAlerts, callbacks, chats, members, answer, ctx, nodes>>

\* the program with NewAlert of callback.go, subscribed to one chat
NextWithMessage ==
  \/ \E id \in FiringIDs : WebhookFiringWithMessage(id)
  \/ \E id \in AlertIDs : WebhookResolved(id)
  \/ RunCallback
  \/ RunAlert
  \/ \E c \in Cases : AutoForward(c)
  \/ Tick
  \/ \E m \in 1..Len(msgs), u \in Users : Press(m, u)

SpecWithMessage == InitShutdown /\ [][NextWithMessage]_vars

\* C35: while the process runs, every case whose AutoForward goroutine has
\* not returned is in a registry: in the map of the webhook routine, where
\* a resolved notification finds it, or in the map of the dispatch loop,
\* where a callback finds it.
C35_NoOrphanTimer ==
  \A c \in Cases :
    (~crashed /\ tpc[c] # "done")
      => \/ Holds(WebhookAlerts[heap[c].ID], c)
         \/ Holds(HandleAlerts[heap[c].ID], c)

\* ---- C36 ----
\* the chat has been sent a message with buttons
HasMessage(chat) == \E m \in 1..Len(msgs) : msgs[m].chat = chat

\* every edit among the calls of the outcome s that is addressed to a chat
\* with such a message (an edit is addressed to the chat of its case) names
\* a message of that chat
EditsHitChat(s) ==
  \A i \in 1..Len(s.out) :
    (s.out[i].op = "edit" /\ HasMessage(s.out[i].chat))
      => CanEdit(World, s.out[i].chat, s.out[i].mid)

\* C36: every edit that the handlers of a callback or of a resolved
\* notification issue for a case names a message sent to the chat of that
\* case; so it does for a resolved notification that no callback preceded
\* and for a callback that comes from another chat than the case's.
C36_EditsOwnMessage ==
  /\ CallbackPending => \A s \in OutcomesEditFirst : EditsHitChat(s)
  /\ \A id \in AlertIDs :
       ~crashed => \A s \in ResolvedChatsEditFirst(World, id, chats) : EditsHitChat(s)

\* ---- C37 ----
\* the cases of the list
CasesOf(hs) == { hs[i] : i \in 1..Len(hs) }

\* C37: a callback that carries a correlation ID leaves every case of
\* another ID as it is, with its goroutine where it was; every call it
\* issues is addressed to the chat of a case that the loop tracks for the
\* ID of the callback, at most two calls per such case, and no message but
\* the one whose button was pressed changes.
C37_OtherIDsUntouched ==
  CallbackPending =>
    LET cb == Head(callbacks)
        id == Decode(cb.Data).AlertID
    IN  \A s \in Outcomes :
          /\ \A c \in Cases :
               heap[c].ID # id
                 => (s.heap[c] = heap[c] /\ s.tpc[c] = tpc[c] /\ s.tlv[c] = tlv[c])
          /\ \A i \in 1..Len(s.out) :
               \E c \in CasesOf(HandleAlerts[id]) : s.out[i].chat = heap[c].Chat
          /\ Len(s.out) <= 2 * Len(HandleAlerts[id])
          /\ \A m \in 1..Len(msgs) : m # cb.MessageID => s.msgs[m] = msgs[m]

\* C37 is exercised: the loop tracks an active case for each of two
\* correlation IDs, a button of one of them was pressed, and the callback
\* has an outcome that changes the case of its ID
C37_Witness ==
  /\ CallbackPending
  /\ Head(callbacks).Data \in msgs[Head(callbacks).MessageID].kb
  /\ \E c, d \in Cases :
       /\ heap[c].ID = Decode(Head(callbacks).Data).AlertID
       /\ heap[d].ID # heap[c].ID
       /\ HandleAlerts[heap[c].ID] = <<c>> /\ HandleAlerts[heap[d].ID] = <<d>>
       /\ heap[c].AutoForwardFlag /\ heap[d].AutoForwardFlag
       /\ \E s \in Outcomes : s.heap[c] # heap[c] /\ s.out # <<>>

\* ---- C38 ----
commandAddMember == "/addmember"
responseMember == "Already do your wish!"

\* MemberStore.Add: a Put under the key of the user name
MemberStoreAdd(dir, m) == { x \in dir : x.Username # m.Username } \cup {m}

\* NodeStore.Add: a Put under the key of the node's ID
NodeStoreAdd(store, n) ==
  [k \in DOMAIN store \cup {n.ID} |-> IF k = n.ID THEN n ELSE store[k]]

\* the bot answers in the chat
Say(s, chat, text) == SendMessage(s, Notice(text, chat, "", ""))

\* handleAddMember on the words of the message: the count of the words and
\* the level are checked; the member is put into the member store; for a
\* member of level 1 the node named by the fourth word, which may be
\* missing, is put into the node store with no ID; either Put may fail
handleAddMember(s, params, chat) ==
  IF Len(params) < 3 \/ Len(params) > 4 THEN {Say(s, chat, "format")}
  ELSE IF params[3] \notin HandleLevel THEN {Say(s, chat, "level")}
  ELSE
    LET member == Member(params[2], params[3], chat)
        s1 == [s EXCEPT !.members = MemberStoreAdd(@, member)]
        node == [ID |-> "", Name |-> params[4], Owner |-> member.Username]
    IN  {Say(s, chat, "member not added")}
        \cup (IF member.Level # levelOne THEN {Say(s1, chat, responseMember)}
              ELSE IF Len(params) < 4 THEN {Panic(s1)}
              ELSE { Say(s1, chat, "node not added"),
                     Say([s1 EXCEPT !.nodes = NodeStoreAdd(@, node)],
                         chat, responseMember) })

\* the stores as handleAddMember finds them
Stores == [members |-> members, nodes |-> nodes, out |-> <<>>, crashed |-> crashed]

\* case message := <-messages, for a message of the admin that begins with
\* /addmember
AddMember(params, chat) ==
  /\ ~crashed /\ ctx # "returned"
  /\ \E s \in handleAddMember(Stores, params, chat) :
       members' = s.members /\ nodes' = s.nodes /\ crashed' = s.crashed
  /\ UNCHANGED <<heap, tpc, tlv, msgs, HandleAlerts, WebhookAlerts, alertchan,
                 callbacks, chats, answer, ctx>>

\* the messages the admin sends: user names, levels and node names, with
\* too few and too many words among them
AddUsers == {"alice", "dave"}
AddLevels == HandleLevel \cup {"4"}
AddNodes == {"X", "Y"}
AddMemberTexts ==
  { <<commandAddMember, u>> : u \in AddUsers }
  \cup { <<commandAddMember, u, l>> : u \in AddUsers, l \in AddLevels }
  \cup { <<commandAddMember, u, l, n>> : u \in AddUsers, l \in AddLevels, n \in AddNodes }
  \cup { <<commandAddMember, u, l, n, "now">> :
           u \in AddUsers, l \in AddLevels, n \in AddNodes }

\* both stores are empty
InitAddMember ==
  /\ heap = <<>> /\ tpc = <<>> /\ tlv = <<>> /\ msgs = <<>>
  /\ HandleAlerts = [id \in AlertIDs \cup {""} |-> <<>>]
  /\ WebhookAlerts = [id \in AlertIDs |-> <<>>]
  /\ alertchan = <<>> /\ callbacks = <<>>
  /\ chats = <<1>>
  /\ members = {}
  /\ crashed = FALSE
  /\ answer = NoAnswer
  /\ ctx = "live"
  /\ nodes = [k \in {} |-> 0]

NextAddMember ==
  \E params \in AddMemberTexts, chat \in LookupChats : AddMember(params, chat)

SpecAddMember == InitAddMember /\ [][NextAddMember]_vars

\* handleAddMember has answered that the member is added
Accepted(s) == s.out # <<>> /\ s.out[Len(s.out)].kind = responseMember

\* C38: when the node store lists a node with a level-1 member as owner and
\* /addmember is accepted for another member at level 1 with another node
\* name, the store lists both nodes, and the owners found for the two names
\* are the two members.
C38_BothNodesListed ==
  \A n \in NodeStoreList(nodes), params \in AddMemberTexts, chat \in LookupChats :
    (/\ ~crashed /\ Len(params) = 4 /\ params[3] = levelOne
     /\ params[2] # n.Owner /\ params[4] # n.Name
     /\ \E m \in members : m.Username = n.Owner /\ m.Level = levelOne)
      => \A s \in handleAddMember(Stores, params, chat) :
           Accepted(s) =>
             /\ OwnersIn(s.nodes, n.Name) = {n.Owner}
             /\ OwnersIn(s.nodes, params[4]) = {params[2]}

====
